---- MODULE Spec2Model ----
(***************************************************************************)
(* Model of src/app/script/events_class.cpp: the Events listener table,    *)
(* its two subclasses AppEvents and SpriteEvents, the Lua-facing           *)
(* Events_on / Events_off, and push_app_events / push_sprite_events.       *)
(*                                                                         *)
(* Event types are the integers of the enums; m_listeners[s] is the        *)
(* vector of vectors of source s, so the list of event type e is           *)
(* m_listeners[s][e + 1].  The Lua registry is the table luaL_ref and      *)
(* luaL_unref work on: a slot holds a value, "nil" (never used) or "free"  *)
(* (released: the slot then holds an integer link of the free list).       *)
(***************************************************************************)
EXTENDS Integers, Sequences, FiniteSets, TLC

\* ---------------------------------------------------------------- bounds
MaxRef == 2          \* slots of the Lua registry the model lets luaL_ref use
MaxLen == 3          \* longest list the direct add() calls of SpecTable build
MaxNested == 1       \* calls of on/off the callbacks of one pass make

\* ------------------------------------------------------------- constants
Unknown == -1
SiteChange == 0
FgColorChange == 1
BgColorChange == 2
Change == 0
FilenameChange == 1
LUA_REFNIL == -1

App == "app"
Docs == {"D1", "D2"}
Sources == {App} \cup Docs

Funcs == {"f", "g"}                 \* Lua function values (compared by identity)
NonFunc == "tbl"                    \* a Lua value that is not a function
NoName == "<not a string>"          \* lua_tostring(L, 2) gave NULL
EventNames == {"sitechange", "fgcolorchange", "bgcolorchange",
               "change", "filenamechange", "bogus"}
Refs == 1..MaxRef

VARIABLES
  registry,        \* Lua registry: [Refs -> Funcs \cup {NonFunc, "nil", "free"}]
  freeList,        \* luaL_unref's free list, most recently released first
  otherRefs,       \* refs taken by other features of the program
  g_appEvents,     \* TRUE iff the unique_ptr holds an AppEvents
  g_spriteEvents,  \* keys of the map: documents that have a SpriteEvents
  docOpen,         \* [Docs -> BOOLEAN]: doc::get<Sprite>(id) resolves
  m_listeners,     \* [Sources -> Seq(Seq(Int))]
  ctxObservers,    \* entries of the live AppEvents in the context's observers
  ctxDangling,     \* entries of a destroyed AppEvents left in that list
  fgSlots,         \* slots of this file on fgColor.AfterChange
  bgSlots,         \* slots of this file on bgColor.AfterChange
  m_fgConn,        \* TRUE iff m_fgConn holds a connection
  m_bgConn,
  undoObservers,   \* [Docs -> Nat]: entries in the document's undo observers
  docObservers,    \* [Docs -> Nat]: entries in the document's observers
  m_observingUndo, \* [Docs -> BOOLEAN]
  exitSlots,       \* slots connected to App::Exit that reset g_appEvents
  atExit,          \* the static flag of push_sprite_events
  exited,          \* App::Exit has fired
  ub,              \* undefined behaviour was executed (null or dead object)
  lastCall,        \* the last call made through the script interface
  ret,             \* what it returned
  hookLog,         \* hooks and destructor calls run by the last step
  pc,              \* "idle", "iter" (inside the loop of call) or "done"
  passSrc,         \* the Events object call() runs on
  passType,        \* its eventType argument
  passNotif,       \* the native notification that led to it
  it,              \* the range-for's iterator, as an offset from begin
  itEnd,           \* the end iterator taken when the loop started
  dangling,        \* the buffer the iterators point into was reallocated
  snapshot,        \* m_listeners when the notification arrived
  invoked,         \* the refs the pass called lua_pcall on, in order
  failed,          \* one of those calls returned an error
  silent,          \* and one of the errors was not given to consolePrint
  mutations,       \* calls of on/off made by the callbacks of the pass
  oob              \* the pass read a position outside the current list

regVars == <<registry, freeList, otherRefs>>
srcVars == <<g_appEvents, g_spriteEvents, docOpen>>
subVars == <<ctxObservers, ctxDangling, fgSlots, bgSlots, m_fgConn, m_bgConn,
             undoObservers, docObservers, m_observingUndo>>
lifeVars == <<exitSlots, atExit, exited>>
callVars == <<lastCall, ret>>
passVars == <<pc, passSrc, passType, passNotif, it, itEnd, dangling, snapshot,
              invoked, failed, silent, mutations, oob>>
vars == <<regVars, srcVars, m_listeners, subVars, lifeVars, ub, callVars,
          hookLog, passVars>>

Live == (IF g_appEvents THEN {App} ELSE {}) \cup g_spriteEvents

\* ------------------------------------------------------- class Events
EmptyLists(n) == [i \in 1..n |-> <<>>]

\* Events::hasListener
hasListener(L, callbackRef) ==
  \E i \in 1..Len(L) : \E j \in 1..Len(L[i]) : L[i][j] = callbackRef

\* m_listeners.resize(eventType+1) when eventType >= m_listeners.size()
Resized(L, eventType) ==
  IF eventType >= Len(L)
    THEN L \o EmptyLists(eventType + 1 - Len(L))
    ELSE L

\* Events::add: the table after the call
add(L, eventType, callbackRef) ==
  [Resized(L, eventType) EXCEPT ![eventType + 1] = Append(@, callbackRef)]

\* the hook of add() run on every add
addHooks_EveryAdd(s, L, eventType, callbackRef) ==
  << <<s, "onAddFirstListener", eventType>> >>

\* Events::add: the hooks it runs
addHooks(s, L, eventType, callbackRef) ==
  IF Len(add(L, eventType, callbackRef)[eventType + 1]) = 1
    THEN << <<s, "onAddFirstListener", eventType>> >>
    ELSE <<>>

\* the inner loop with ++it after an erase too
RECURSIVE eraseLoop_Advance(_, _, _)
eraseLoop_Advance(listeners, pos, callbackRef) ==
  IF pos > Len(listeners) THEN listeners
  ELSE IF listeners[pos] = callbackRef
    THEN eraseLoop_Advance(SubSeq(listeners, 1, pos - 1)
                             \o SubSeq(listeners, pos + 1, Len(listeners)),
                           pos + 1, callbackRef)
    ELSE eraseLoop_Advance(listeners, pos + 1, callbackRef)

\* the inner loop of Events::remove: erase every *it == callbackRef
RECURSIVE eraseLoop(_, _, _)
eraseLoop(listeners, pos, callbackRef) ==
  IF pos > Len(listeners) THEN listeners
  ELSE IF listeners[pos] = callbackRef
    THEN eraseLoop(SubSeq(listeners, 1, pos - 1)
                     \o SubSeq(listeners, pos + 1, Len(listeners)),
                   pos, callbackRef)
    ELSE eraseLoop(listeners, pos + 1, callbackRef)

\* remove() leaving its outer loop after the first list
remove_FirstListOnly(L, callbackRef) ==
  [i \in 1..Len(L) |->
     IF i = 1 THEN eraseLoop(L[i], 1, callbackRef) ELSE L[i]]

\* Events::remove: the table after the call
remove(L, callbackRef) ==
  [i \in 1..Len(L) |-> eraseLoop(L[i], 1, callbackRef)]

\* Events::remove: the hooks it runs, in the order of the outer loop
RECURSIVE removeHooks(_, _, _, _)
removeHooks(s, L, callbackRef, i) ==
  IF i > Len(L) THEN <<>>
  ELSE LET after == eraseLoop(L[i], 1, callbackRef)
           removed == after # L[i]
       IN  (IF removed /\ after = <<>>
              THEN << <<s, "onRemoveLastListener", i - 1>> >>
              ELSE <<>>)
           \o removeHooks(s, L, callbackRef, i + 1)

Fired(log, s, hook, eventType) ==
  \E i \in 1..Len(log) : log[i] = <<s, hook, eventType>>

Dec(n) == IF n > 0 THEN n - 1 ELSE 0

\* ---------------------------------------------------- class AppEvents
\* AppEvents::eventType (std::strcmp: exact match)
AppEventType(eventName) ==
  IF eventName = "sitechange" THEN SiteChange
  ELSE IF eventName = "fgcolorchange" THEN FgColorChange
  ELSE IF eventName = "bgcolorchange" THEN BgColorChange
  ELSE Unknown

\* the hooks of AppEvents with an onRemoveLastListener that leaves the
\* foreground connection connected
AppHooks_KeepFgConn(log) ==
  /\ ctxObservers' =
       IF Fired(log, App, "onAddFirstListener", SiteChange)
         THEN ctxObservers + 1
       ELSE IF Fired(log, App, "onRemoveLastListener", SiteChange)
         THEN Dec(ctxObservers)
       ELSE ctxObservers
  /\ IF Fired(log, App, "onAddFirstListener", FgColorChange)
       THEN /\ fgSlots' = fgSlots + 1 - (IF m_fgConn THEN 1 ELSE 0)
            /\ m_fgConn' = TRUE
       ELSE UNCHANGED <<fgSlots, m_fgConn>>
  /\ IF Fired(log, App, "onAddFirstListener", BgColorChange)
       THEN /\ bgSlots' = bgSlots + 1 - (IF m_bgConn THEN 1 ELSE 0)
            /\ m_bgConn' = TRUE
     ELSE IF Fired(log, App, "onRemoveLastListener", BgColorChange)
       THEN /\ bgSlots' = bgSlots - (IF m_bgConn THEN 1 ELSE 0)
            /\ m_bgConn' = FALSE
     ELSE UNCHANGED <<bgSlots, m_bgConn>>
  /\ UNCHANGED ctxDangling

\* AppEvents::onAddFirstListener / onRemoveLastListener for the hooks in
\* log.  Assigning a new connection to a scoped_connection disconnects
\* the one it held.
AppHooks(log) ==
  /\ ctxObservers' =
       IF Fired(log, App, "onAddFirstListener", SiteChange)
         THEN ctxObservers + 1
       ELSE IF Fired(log, App, "onRemoveLastListener", SiteChange)
         THEN Dec(ctxObservers)
       ELSE ctxObservers
  /\ IF Fired(log, App, "onAddFirstListener", FgColorChange)
       THEN /\ fgSlots' = fgSlots + 1 - (IF m_fgConn THEN 1 ELSE 0)
            /\ m_fgConn' = TRUE
     ELSE IF Fired(log, App, "onRemoveLastListener", FgColorChange)
       THEN /\ fgSlots' = fgSlots - (IF m_fgConn THEN 1 ELSE 0)
            /\ m_fgConn' = FALSE
     ELSE UNCHANGED <<fgSlots, m_fgConn>>
  /\ IF Fired(log, App, "onAddFirstListener", BgColorChange)
       THEN /\ bgSlots' = bgSlots + 1 - (IF m_bgConn THEN 1 ELSE 0)
            /\ m_bgConn' = TRUE
     ELSE IF Fired(log, App, "onRemoveLastListener", BgColorChange)
       THEN /\ bgSlots' = bgSlots - (IF m_bgConn THEN 1 ELSE 0)
            /\ m_bgConn' = FALSE
     ELSE UNCHANGED <<bgSlots, m_bgConn>>
  /\ UNCHANGED ctxDangling

\* ------------------------------------------------- class SpriteEvents
\* SpriteEvents::eventType
SpriteEventType(eventName) ==
  IF eventName = "change" THEN Change
  ELSE IF eventName = "filenamechange" THEN FilenameChange
  ELSE Unknown

\* onAddFirstListener subscribing for every event type
AddFirstUndo_AnyType(log, d) ==
  \E e \in {Change, FilenameChange} : Fired(log, d, "onAddFirstListener", e)

\* SpriteEvents::onAddFirstListener: doc()->undoHistory()->add_observer(this)
\* dereferences the null doc() of a sprite that no longer resolves.
AddFirstUndo(log, d) == Fired(log, d, "onAddFirstListener", Change)

\* SpriteEvents::onRemoveLastListener -> disconnectFromUndoHistory(doc())
RemoveLastUndo(log, d) == Fired(log, d, "onRemoveLastListener", Change)

SpriteHooks(log) ==
  /\ undoObservers' = [d \in Docs |->
       IF AddFirstUndo(log, d) /\ docOpen[d] THEN undoObservers[d] + 1
       ELSE IF RemoveLastUndo(log, d) /\ m_observingUndo[d] /\ docOpen[d]
         THEN Dec(undoObservers[d])
       ELSE undoObservers[d]]
  /\ m_observingUndo' = [d \in Docs |->
       IF AddFirstUndo(log, d) THEN TRUE
       ELSE IF RemoveLastUndo(log, d) THEN FALSE
       ELSE m_observingUndo[d]]
  /\ UNCHANGED docObservers

\* the null dereferences of the two hooks
HooksUB(log) ==
  \E d \in Docs :
    /\ ~docOpen[d]
    /\ \/ AddFirstUndo(log, d)
       \/ RemoveLastUndo(log, d) /\ m_observingUndo[d]

\* the virtual call: the hooks of whichever subclass the object is
RunHooks(log) ==
  /\ hookLog' = log
  /\ AppHooks(log)
  /\ SpriteHooks(log)
  /\ ub' = (ub \/ HooksUB(log))

\* eventType() with the first enumerator as its fallback
eventType_Fallback(s, eventName) ==
  IF s = App
    THEN (IF AppEventType(eventName) = Unknown
            THEN SiteChange ELSE AppEventType(eventName))
    ELSE (IF SpriteEventType(eventName) = Unknown
            THEN Change ELSE SpriteEventType(eventName))

\* Events::eventType, virtual
eventType(s, eventName) ==
  IF s = App THEN AppEventType(eventName) ELSE SpriteEventType(eventName)

\* -------------------------------------------------- the Lua registry
regTop == Cardinality({i \in Refs : registry[i] # "nil"})

CanRef == freeList # <<>> \/ regTop < MaxRef

\* luaL_ref: the ref it returns
NewRef == IF freeList # <<>> THEN Head(freeList) ELSE regTop + 1

\* luaL_ref(L, LUA_REGISTRYINDEX) of value v
luaL_ref(v) ==
  /\ registry' = [registry EXCEPT ![NewRef] = v]
  /\ freeList' = IF freeList # <<>> THEN Tail(freeList) ELSE freeList

\* luaL_unref(L, LUA_REGISTRYINDEX, ref)
luaL_unref(ref) ==
  /\ registry' = [registry EXCEPT ![ref] = "free"]
  /\ freeList' = <<ref>> \o freeList

\* lua_rawgeti(L, LUA_REGISTRYINDEX, ref)
rawgeti(ref) == IF ref \in Refs THEN registry[ref] ELSE "nil"

\* the step makes no call through the script interface
NoCall ==
  /\ lastCall' = <<"none">>
  /\ ret' = <<"nothing">>

\* ------------------------------------------------ the loop of call()
NoLists == [s \in Sources |-> <<>>]

PassReset ==
  /\ pc' = "idle"
  /\ passSrc' = "none"
  /\ passType' = Unknown
  /\ passNotif' = "none"
  /\ it' = 0
  /\ itEnd' = 0
  /\ dangling' = FALSE
  /\ snapshot' = NoLists
  /\ invoked' = <<>>
  /\ failed' = FALSE
  /\ silent' = FALSE
  /\ mutations' = 0
  /\ oob' = FALSE

\* ------------------------------------------- Events_on / Events_off
NoTableChange ==
  /\ UNCHANGED <<registry, freeList, m_listeners>>
  /\ RunHooks(<<>>)

\* Events_on(L) with evs = s, argument 2 = eventName, argument 3 = cb
Events_on(s, eventName, cb) ==
  /\ lastCall' = <<"on", s, eventName, cb>>
  /\ UNCHANGED otherRefs
  /\ IF eventName = NoName
       THEN /\ ret' = <<"nothing">>
            /\ NoTableChange
     ELSE IF eventType(s, eventName) < 0
       THEN /\ ret' = <<"error", "invalid event name to listen">>
            /\ NoTableChange
     ELSE IF cb \notin Funcs
       THEN /\ ret' = <<"error", "second argument must be a function">>
            /\ NoTableChange
     ELSE /\ CanRef
          /\ luaL_ref(cb)
          /\ m_listeners' = [m_listeners EXCEPT
                 ![s] = add(@, eventType(s, eventName), NewRef)]
          /\ RunHooks(addHooks(s, m_listeners[s],
                               eventType(s, eventName), NewRef))
          /\ ret' = <<"ref", NewRef>>

\* the scan without its hasListener test
ScanMatches_AnySource(s, fn) == {i \in Refs : registry[i] = fn}

\* the lua_next scan of Events_off: the registry keys whose value is the
\* function given and that this Events holds
ScanMatches(s, fn) ==
  {i \in Refs : registry[i] = fn /\ hasListener(m_listeners[s], i)}

\* the callbackRef Events_off settles on before its final test; lua_next's
\* traversal order decides which match comes first
OffCandidates(s, arg) ==
  IF arg[1] = "int" THEN {arg[2]}
  ELSE IF ScanMatches(s, arg[2]) = {} THEN {LUA_REFNIL}
  ELSE ScanMatches(s, arg[2])

\* the final test without hasListener
OwnsRef_AnyRef(s, callbackRef) == callbackRef # LUA_REFNIL

\* the final test of Events_off: a ref, and one this Events holds
OwnsRef(s, callbackRef) ==
  /\ callbackRef # LUA_REFNIL
  /\ hasListener(m_listeners[s], callbackRef)

\* Events_off(L) with evs = s and argument 2 = arg: <<"int", k>>,
\* <<"fn", f>> or <<"other", v>>
Events_off(s, arg) ==
  /\ lastCall' = <<"off", s, arg>>
  /\ UNCHANGED otherRefs
  /\ IF arg[1] = "other"
       THEN /\ ret' = <<"error",
                       "first argument must be a function or a EventListener">>
            /\ NoTableChange
       ELSE /\ ret' = <<"nothing">>
            /\ \E callbackRef \in OffCandidates(s, arg) :
                 IF OwnsRef(s, callbackRef)
                   THEN /\ m_listeners' = [m_listeners EXCEPT
                               ![s] = remove(@, callbackRef)]
                        /\ RunHooks(removeHooks(s, m_listeners[s],
                                                callbackRef, 1))
                        /\ luaL_unref(callbackRef)
                   ELSE NoTableChange

OnArgs == Funcs \cup {NonFunc}
OffArgs == {<<"int", k>> : k \in {LUA_REFNIL} \cup Refs}
             \cup {<<"fn", fn>> : fn \in Funcs}
             \cup {<<"other", NonFunc>>}

\* a script calls evs:on(...) outside any dispatch
On(s, eventName, cb) ==
  /\ pc # "iter"
  /\ ~exited
  /\ s \in Live
  /\ Events_on(s, eventName, cb)
  /\ PassReset
  /\ UNCHANGED <<srcVars, lifeVars>>

\* a script calls evs:off(...) outside any dispatch
Off(s, arg) ==
  /\ pc # "iter"
  /\ ~exited
  /\ s \in Live
  /\ Events_off(s, arg)
  /\ PassReset
  /\ UNCHANGED <<srcVars, lifeVars>>

\* --------------------------------------------------- Events::call
\* call() starting its loop at the second listener
call_SkipFirst(s, type) ==
  /\ passSrc' = s
  /\ passType' = type
  /\ IF type >= Len(m_listeners[s])
       THEN pc' = "done" /\ it' = 0 /\ itEnd' = 0
       ELSE /\ pc' = "iter"
            /\ itEnd' = Len(m_listeners[s][type + 1])
            /\ it' = IF Len(m_listeners[s][type + 1]) > 0 THEN 1 ELSE 0

\* Events::call up to the loop: nothing to do for an event type the table
\* has no list for; otherwise the range-for takes begin and end once.
call(s, type) ==
  /\ passSrc' = s
  /\ passType' = type
  /\ it' = 0
  /\ IF type >= Len(m_listeners[s])
       THEN pc' = "done" /\ itEnd' = 0
       ELSE pc' = "iter" /\ itEnd' = Len(m_listeners[s][type + 1])

\* a native notification reaches an observer of this file, outside any
\* dispatch
Notified(notif) ==
  /\ pc # "iter"
  /\ passNotif' = notif
  /\ snapshot' = m_listeners
  /\ dangling' = FALSE
  /\ invoked' = <<>>
  /\ failed' = FALSE
  /\ silent' = FALSE
  /\ mutations' = 0
  /\ oob' = FALSE
  /\ hookLog' = <<>>
  /\ NoCall
  /\ UNCHANGED <<regVars, srcVars, m_listeners, subVars, lifeVars>>

\* the context notifies its observers: AppEvents::onActiveSiteChange.  An
\* entry of a destroyed AppEvents is called through a dead pointer.
ActiveSiteChange ==
  /\ ctxObservers + ctxDangling > 0
  /\ Notified("ActiveSiteChange")
  /\ ub' = (ub \/ ctxDangling > 0)
  /\ IF ctxObservers > 0
       THEN call(App, SiteChange)
       ELSE /\ passSrc' = "none"
            /\ passType' = Unknown
            /\ it' = 0
            /\ itEnd' = 0
            /\ pc' = "done"

\* fgColor.AfterChange fires: AppEvents::onFgColorChange
FgColorAfterChange ==
  /\ Notified("FgColorAfterChange")
  /\ UNCHANGED ub
  /\ fgSlots > 0
  /\ call(App, FgColorChange)

\* bgColor.AfterChange fires: AppEvents::onBgColorChange
BgColorAfterChange ==
  /\ Notified("BgColorAfterChange")
  /\ UNCHANGED ub
  /\ bgSlots > 0
  /\ call(App, BgColorChange)

\* SpriteEvents::onFileNameChanged
FileNameChanged(d) ==
  /\ docOpen[d]
  /\ Notified("FileNameChanged")
  /\ UNCHANGED ub
  /\ docObservers[d] > 0
  /\ call(d, FilenameChange)

\* SpriteEvents::onAddUndoState
AddUndoState(d) ==
  /\ docOpen[d]
  /\ Notified("AddUndoState")
  /\ UNCHANGED ub
  /\ undoObservers[d] > 0
  /\ call(d, Change)

\* SpriteEvents::onCurrentUndoStateChange
CurrentUndoStateChange(d) ==
  /\ docOpen[d]
  /\ Notified("CurrentUndoStateChange")
  /\ UNCHANGED ub
  /\ undoObservers[d] > 0
  /\ call(d, Change)

\* the callback runs without calling on or off
NoScriptCall ==
  /\ UNCHANGED <<regVars, m_listeners>>
  /\ NoCall
  /\ RunHooks(<<>>)

\* what the function the registry holds does when lua_pcall runs it:
\* return, raise a string, raise a value lua_tostring gives NULL for, or
\* call on / off of the Events it is called from and return
Callback ==
  \/ /\ NoScriptCall
     /\ UNCHANGED <<failed, silent>>
  \/ /\ NoScriptCall
     /\ failed' = TRUE
     /\ UNCHANGED silent
  \/ /\ NoScriptCall
     /\ failed' = TRUE
     /\ silent' = TRUE
  \/ /\ mutations < MaxNested
     /\ \E eventName \in EventNames, cb \in Funcs :
          /\ eventType(passSrc, eventName) >= 0
          /\ Events_on(passSrc, eventName, cb)
     /\ UNCHANGED <<failed, silent>>
  \/ /\ mutations < MaxNested
     /\ \E callbackRef \in Refs :
          /\ hasListener(m_listeners[passSrc], callbackRef)
          /\ Events_off(passSrc, <<"int", callbackRef>>)
     /\ UNCHANGED <<failed, silent>>

\* the list the range-for of call() walks
PassList == m_listeners[passSrc][passType + 1]

\* the iterator still points into the list's current elements
InsideList == ~dangling /\ it < Len(PassList)

\* *it: the element when the iterator is inside the list; otherwise the
\* read is of memory the vector no longer holds, and gives any int
Deref == IF InsideList THEN {PassList[it + 1]} ELSE 0..MaxRef

\* push_back on a full buffer reallocates; whether the buffer is full is
\* the library's growth policy
MayReallocate ==
  Len(m_listeners'[passSrc][passType + 1]) > Len(PassList)

\* one turn of the loop of Events::call
DispatchStep ==
  /\ pc = "iter"
  /\ it # itEnd
  /\ \E callbackRef \in Deref :
       /\ invoked' = Append(invoked, callbackRef)
       /\ IF rawgeti(callbackRef) \in Funcs
            THEN Callback
            ELSE /\ NoScriptCall
                 /\ failed' = TRUE
                 /\ UNCHANGED silent
  /\ oob' = (oob \/ ~InsideList)
  /\ it' = it + 1
  /\ mutations' = mutations + (IF m_listeners' # m_listeners THEN 1 ELSE 0)
  /\ dangling' \in {dangling} \cup (IF MayReallocate THEN {TRUE} ELSE {})
  /\ UNCHANGED <<pc, passSrc, passType, passNotif, itEnd, snapshot,
                 srcVars, lifeVars>>

\* the loop ends when the iterator meets the end taken at the start
DispatchReturn ==
  /\ pc = "iter"
  /\ it = itEnd
  /\ pc' = "done"
  /\ hookLog' = <<>>
  /\ NoCall
  /\ UNCHANGED <<regVars, srcVars, m_listeners, subVars, lifeVars, ub,
                 passSrc, passType, passNotif, it, itEnd, dangling,
                 snapshot, invoked, failed, silent, mutations, oob>>

\* ------------------------------------- push_app_events, push_sprite_events
push_app_events ==
  /\ pc # "iter"
  /\ IF ~g_appEvents
       THEN /\ exitSlots' = exitSlots + 1
            /\ g_appEvents' = TRUE
            /\ m_listeners' = [m_listeners EXCEPT ![App] = <<>>]
       ELSE UNCHANGED <<exitSlots, g_appEvents, m_listeners>>
  /\ hookLog' = <<>>
  /\ NoCall
  /\ PassReset
  /\ UNCHANGED <<regVars, g_spriteEvents, docOpen, subVars, atExit, exited, ub>>

\* push_sprite_events creating a SpriteEvents on every request
push_sprite_events_AlwaysNew(d) ==
  /\ pc # "iter"
  /\ ~exited
  /\ docOpen[d]
  /\ atExit' = TRUE
  /\ g_spriteEvents' = g_spriteEvents \cup {d}
  /\ m_listeners' = [m_listeners EXCEPT ![d] = <<>>]
  /\ m_observingUndo' = [m_observingUndo EXCEPT ![d] = FALSE]
  /\ docObservers' = [docObservers EXCEPT ![d] = @ + 1]
  /\ hookLog' = <<>>
  /\ NoCall
  /\ PassReset
  /\ UNCHANGED <<regVars, g_appEvents, docOpen, ctxObservers, ctxDangling,
                 fgSlots, bgSlots, m_fgConn, m_bgConn, undoObservers,
                 exitSlots, exited, ub>>

\* push_sprite_events(L, sprite) for the sprite of document d; the
\* constructor SpriteEvents(sprite) runs doc()->add_observer(this)
push_sprite_events(d) ==
  /\ pc # "iter"
  /\ ~exited
  /\ docOpen[d]
  /\ atExit' = TRUE
  /\ IF d \notin g_spriteEvents
       THEN /\ g_spriteEvents' = g_spriteEvents \cup {d}
            /\ m_listeners' = [m_listeners EXCEPT ![d] = <<>>]
            /\ m_observingUndo' = [m_observingUndo EXCEPT ![d] = FALSE]
            /\ docObservers' = [docObservers EXCEPT ![d] = @ + 1]
       ELSE UNCHANGED <<g_spriteEvents, m_listeners, m_observingUndo,
                        docObservers>>
  /\ hookLog' = <<>>
  /\ NoCall
  /\ PassReset
  /\ UNCHANGED <<regVars, g_appEvents, docOpen, ctxObservers, ctxDangling,
                 fgSlots, bgSlots, m_fgConn, m_bgConn, undoObservers,
                 exitSlots, exited, ub>>

\* ~SpriteEvents without its call of disconnectFromUndoHistory
DestroySpriteEvents_KeepUndo(ds) ==
  /\ g_spriteEvents' = g_spriteEvents \ ds
  /\ UNCHANGED <<undoObservers, m_observingUndo>>
  /\ docObservers' = [d \in Docs |->
       IF d \in ds /\ docOpen[d]
         THEN Dec(docObservers[d]) ELSE docObservers[d]]

\* g_spriteEvents.clear() destroying only the first element of the map
DestroySpriteEvents_FirstOnly(ds) ==
  LET first == IF "D1" \in ds THEN {"D1"} ELSE ds
  IN  /\ g_spriteEvents' = g_spriteEvents \ first
      /\ undoObservers' = [d \in Docs |->
           IF d \in first /\ docOpen[d] /\ m_observingUndo[d]
             THEN Dec(undoObservers[d]) ELSE undoObservers[d]]
      /\ m_observingUndo' = [d \in Docs |->
           IF d \in first /\ docOpen[d] THEN FALSE ELSE m_observingUndo[d]]
      /\ docObservers' = [d \in Docs |->
           IF d \in first /\ docOpen[d]
             THEN Dec(docObservers[d]) ELSE docObservers[d]]

\* ~SpriteEvents for the documents in ds: with a doc() that resolves,
\* disconnectFromUndoHistory(doc) and doc->remove_observer(this)
DestroySpriteEvents(ds) ==
  /\ g_spriteEvents' = g_spriteEvents \ ds
  /\ undoObservers' = [d \in Docs |->
       IF d \in ds /\ docOpen[d] /\ m_observingUndo[d]
         THEN Dec(undoObservers[d]) ELSE undoObservers[d]]
  /\ m_observingUndo' = [d \in Docs |->
       IF d \in ds /\ docOpen[d] THEN FALSE ELSE m_observingUndo[d]]
  /\ docObservers' = [d \in Docs |->
       IF d \in ds /\ docOpen[d]
         THEN Dec(docObservers[d]) ELSE docObservers[d]]

\* what ~SpriteEvents of document d does, as entries of hookLog: nothing
\* when doc() is null; otherwise disconnectFromUndoHistory(doc), which
\* removes the undo observer only when m_observingUndo, and
\* doc->remove_observer(this)
DtorLog(d, ds) ==
  IF d \notin ds \/ ~docOpen[d] THEN <<>>
  ELSE (IF m_observingUndo[d]
          THEN << <<d, "undoHistory.remove_observer", Change>> >>
          ELSE <<>>)
       \o << <<d, "doc.remove_observer", Unknown>> >>

\* the destructors of the map's elements run in the order of the keys
DestroyLog(ds) == DtorLog("D1", ds) \o DtorLog("D2", ds)

\* a closure whose destructor releases the refs the lists still hold
CloseDocument_Release(d) ==
  /\ pc # "iter"
  /\ ~exited
  /\ docOpen[d]
  /\ DestroySpriteEvents(IF docObservers[d] > 0 THEN {d} ELSE {})
  /\ m_listeners' = [m_listeners EXCEPT ![d] = <<>>]
  /\ docOpen' = [docOpen EXCEPT ![d] = FALSE]
  /\ registry' = [k \in Refs |->
       IF hasListener(m_listeners[d], k) THEN "free" ELSE registry[k]]
  /\ freeList' = SelectSeq(<<1, 2, 3, 4>>,
                           LAMBDA k : hasListener(m_listeners[d], k))
                   \o freeList
  /\ hookLog' = DestroyLog(IF docObservers[d] > 0 THEN {d} ELSE {})
  /\ NoCall
  /\ PassReset
  /\ UNCHANGED <<otherRefs, g_appEvents, ctxObservers, ctxDangling, fgSlots,
                 bgSlots, m_fgConn, m_bgConn, lifeVars, ub>>

\* document d closes: its observers get onCloseDocument, which erases the
\* SpriteEvents from g_spriteEvents; then the document is gone
CloseDocument(d) ==
  /\ pc # "iter"
  /\ ~exited
  /\ docOpen[d]
  /\ DestroySpriteEvents(IF docObservers[d] > 0 THEN {d} ELSE {})
  /\ m_listeners' = [m_listeners EXCEPT ![d] = <<>>]
  /\ docOpen' = [docOpen EXCEPT ![d] = FALSE]
  /\ hookLog' = DestroyLog(IF docObservers[d] > 0 THEN {d} ELSE {})
  /\ NoCall
  /\ PassReset
  /\ UNCHANGED <<regVars, g_appEvents, ctxObservers, ctxDangling, fgSlots,
                 bgSlots, m_fgConn, m_bgConn, lifeVars, ub>>

\* App::Exit fires: the slots of push_app_events run g_appEvents.reset()
\* (~AppEvents: the two scoped_connections disconnect, nothing else), the
\* slot of push_sprite_events runs g_spriteEvents.clear()
AppExit ==
  /\ pc # "iter"
  /\ ~exited
  /\ exited' = TRUE
  /\ IF exitSlots > 0 /\ g_appEvents
       THEN /\ g_appEvents' = FALSE
            /\ fgSlots' = fgSlots - (IF m_fgConn THEN 1 ELSE 0)
            /\ bgSlots' = bgSlots - (IF m_bgConn THEN 1 ELSE 0)
            /\ m_fgConn' = FALSE
            /\ m_bgConn' = FALSE
            /\ ctxDangling' = ctxDangling + ctxObservers
            /\ ctxObservers' = 0
       ELSE UNCHANGED <<g_appEvents, fgSlots, bgSlots, m_fgConn, m_bgConn,
                        ctxDangling, ctxObservers>>
  /\ IF atExit
       THEN DestroySpriteEvents(g_spriteEvents)
       ELSE UNCHANGED <<g_spriteEvents, undoObservers, m_observingUndo,
                        docObservers>>
  /\ m_listeners' = [s \in Sources |->
       IF \/ s = App /\ exitSlots > 0
          \/ s \in Docs /\ atExit
         THEN <<>> ELSE m_listeners[s]]
  /\ hookLog' = (IF exitSlots > 0 /\ g_appEvents
                   THEN << <<App, "~AppEvents", Unknown>> >> ELSE <<>>)
                \o (IF atExit THEN DestroyLog(g_spriteEvents) ELSE <<>>)
  /\ NoCall
  /\ PassReset
  /\ UNCHANGED <<regVars, docOpen, exitSlots, atExit, ub>>

\* ------------------------------------ other users of the Lua registry
OtherValues == {"f"}

\* another feature keeps a value in the registry with luaL_ref
OtherRef(v) ==
  /\ pc # "iter"
  /\ ~exited
  /\ CanRef
  /\ luaL_ref(v)
  /\ otherRefs' = otherRefs \cup {NewRef}
  /\ hookLog' = <<>>
  /\ NoCall
  /\ PassReset
  /\ UNCHANGED <<srcVars, m_listeners, subVars, lifeVars, ub>>

\* and releases one of its own refs with luaL_unref
OtherUnref(ref) ==
  /\ pc # "iter"
  /\ ~exited
  /\ ref \in otherRefs
  /\ luaL_unref(ref)
  /\ otherRefs' = otherRefs \ {ref}
  /\ hookLog' = <<>>
  /\ NoCall
  /\ PassReset
  /\ UNCHANGED <<srcVars, m_listeners, subVars, lifeVars, ub>>

\* ------------------------------------------------------ specification
Init ==
  /\ registry = [i \in Refs |-> "nil"]
  /\ freeList = <<>>
  /\ otherRefs = {}
  /\ g_appEvents = FALSE
  /\ g_spriteEvents = {}
  /\ docOpen = [d \in Docs |-> d = "D1"]
  /\ m_listeners = NoLists
  /\ ctxObservers = 0
  /\ ctxDangling = 0
  /\ fgSlots = 0
  /\ bgSlots = 0
  /\ m_fgConn = FALSE
  /\ m_bgConn = FALSE
  /\ undoObservers = [d \in Docs |-> 0]
  /\ docObservers = [d \in Docs |-> 0]
  /\ m_observingUndo = [d \in Docs |-> FALSE]
  /\ exitSlots = 0
  /\ atExit = FALSE
  /\ exited = FALSE
  /\ ub = FALSE
  /\ lastCall = <<"none">>
  /\ ret = <<"nothing">>
  /\ hookLog = <<>>
  /\ pc = "idle"
  /\ passSrc = "none"
  /\ passType = Unknown
  /\ passNotif = "none"
  /\ it = 0
  /\ itEnd = 0
  /\ dangling = FALSE
  /\ snapshot = NoLists
  /\ invoked = <<>>
  /\ failed = FALSE
  /\ silent = FALSE
  /\ mutations = 0
  /\ oob = FALSE

Next ==
  \/ push_app_events
  \/ \E d \in Docs : push_sprite_events(d)
  \/ \E s \in Sources, eventName \in EventNames \cup {NoName}, cb \in OnArgs :
       On(s, eventName, cb)
  \/ \E s \in Sources, arg \in OffArgs : Off(s, arg)
  \/ ActiveSiteChange
  \/ FgColorAfterChange
  \/ BgColorAfterChange
  \/ \E d \in Docs : FileNameChanged(d)
  \/ \E d \in Docs : AddUndoState(d)
  \/ \E d \in Docs : CurrentUndoStateChange(d)
  \/ DispatchStep
  \/ DispatchReturn
  \/ \E d \in Docs : CloseDocument(d)
  \/ AppExit
  \/ \E v \in OtherValues : OtherRef(v)
  \/ \E ref \in Refs : OtherUnref(ref)

Spec == Init /\ [][Next]_vars

\* ------------------------------------ class Events called directly
\* The public add() and remove() of one Events object (the SpriteEvents of
\* document D1) called directly with refs the caller took with luaL_ref,
\* so that one ref can sit in several lists and several times in one.
TableSrc == "D1"
TableTypes == {Change, FilenameChange}

\* the caller keeps function v in the registry
TableRef(v) ==
  /\ pc # "iter"
  /\ CanRef
  /\ luaL_ref(v)
  /\ hookLog' = <<>>
  /\ NoCall
  /\ PassReset
  /\ UNCHANGED <<otherRefs, srcVars, m_listeners, subVars, lifeVars, ub>>

\* evs->add(eventType, callbackRef)
TableAdd(type, callbackRef) ==
  /\ pc # "iter"
  /\ TableSrc \in Live
  /\ rawgeti(callbackRef) \in Funcs
  /\ Len(Resized(m_listeners[TableSrc], type)[type + 1]) < MaxLen
  /\ m_listeners' = [m_listeners EXCEPT
         ![TableSrc] = add(@, type, callbackRef)]
  /\ RunHooks(addHooks(TableSrc, m_listeners[TableSrc], type, callbackRef))
  /\ lastCall' = <<"add", type, callbackRef>>
  /\ ret' = <<"nothing">>
  /\ PassReset
  /\ UNCHANGED <<regVars, srcVars, lifeVars>>

\* evs->remove(callbackRef)
TableRemove(callbackRef) ==
  /\ pc # "iter"
  /\ TableSrc \in Live
  /\ m_listeners' = [m_listeners EXCEPT
         ![TableSrc] = remove(@, callbackRef)]
  /\ RunHooks(removeHooks(TableSrc, m_listeners[TableSrc], callbackRef, 1))
  /\ lastCall' = <<"remove", callbackRef>>
  /\ ret' = <<"nothing">>
  /\ PassReset
  /\ UNCHANGED <<regVars, srcVars, lifeVars>>

NextTable ==
  \/ push_sprite_events(TableSrc)
  \/ \E v \in Funcs : TableRef(v)
  \/ \E type \in TableTypes, callbackRef \in Refs : TableAdd(type, callbackRef)
  \/ \E callbackRef \in Refs : TableRemove(callbackRef)
  \/ FileNameChanged(TableSrc)
  \/ AddUndoState(TableSrc)
  \/ CurrentUndoStateChange(TableSrc)
  \/ DispatchStep
  \/ DispatchReturn

SpecTable == Init /\ [][NextTable]_vars

\* ------------------------------------ two open documents, no AppEvents
\* The scripts of a session with two documents open that use only
\* sprite.events.
InitDocs ==
  /\ Init!1 /\ Init!2 /\ Init!3 /\ Init!4 /\ Init!5
  /\ docOpen = [d \in Docs |-> TRUE]
  /\ m_listeners = NoLists
  /\ ctxObservers = 0 /\ ctxDangling = 0
  /\ fgSlots = 0 /\ bgSlots = 0
  /\ m_fgConn = FALSE /\ m_bgConn = FALSE
  /\ undoObservers = [d \in Docs |-> 0]
  /\ docObservers = [d \in Docs |-> 0]
  /\ m_observingUndo = [d \in Docs |-> FALSE]
  /\ exitSlots = 0 /\ atExit = FALSE /\ exited = FALSE /\ ub = FALSE
  /\ lastCall = <<"none">> /\ ret = <<"nothing">> /\ hookLog = <<>>
  /\ pc = "idle" /\ passSrc = "none" /\ passType = Unknown
  /\ passNotif = "none" /\ it = 0 /\ itEnd = 0 /\ dangling = FALSE
  /\ snapshot = NoLists /\ invoked = <<>> /\ failed = FALSE
  /\ silent = FALSE /\ mutations = 0 /\ oob = FALSE

NextDocs ==
  \/ \E d \in Docs : push_sprite_events(d)
  \/ \E d \in Docs, eventName \in {"change", "filenamechange"} :
       On(d, eventName, "f")
  \/ \E d \in Docs, k \in Refs : Off(d, <<"int", k>>)
  \/ \E d \in Docs : FileNameChanged(d)
  \/ \E d \in Docs : AddUndoState(d)
  \/ DispatchStep
  \/ DispatchReturn
  \/ \E d \in Docs : CloseDocument(d)
  \/ AppExit

SpecDocs == InitDocs /\ [][NextDocs]_vars

\* ----------------------------- a sprite that stops resolving unannounced
\* doc::get<Sprite>(m_spriteId) starts to return nullptr without
\* onCloseDocument having reached the SpriteEvents (the case the null test
\* of ~SpriteEvents and of doc() provides for); the observer lists of the
\* document are gone with it
SpriteGone(d) ==
  /\ pc # "iter"
  /\ ~exited
  /\ docOpen[d]
  /\ docOpen' = [docOpen EXCEPT ![d] = FALSE]
  /\ undoObservers' = [undoObservers EXCEPT ![d] = 0]
  /\ docObservers' = [docObservers EXCEPT ![d] = 0]
  /\ hookLog' = <<>>
  /\ NoCall
  /\ PassReset
  /\ UNCHANGED <<regVars, g_appEvents, g_spriteEvents, m_listeners,
                 ctxObservers, ctxDangling, fgSlots, bgSlots, m_fgConn,
                 m_bgConn, m_observingUndo, lifeVars, ub>>

NextStale ==
  \/ NextDocs
  \/ \E d \in Docs : SpriteGone(d)

SpecStale == InitDocs /\ [][NextStale]_vars

\* ------------------------------------------------------------ claims
\* the list of event type e in table L; empty when L has no list for e
ListOf(L, e) == IF e < Len(L) THEN L[e + 1] ELSE <<>>

\* how often x occurs in seq
Count(seq, x) == Cardinality({i \in 1..Len(seq) : seq[i] = x})

\* seq without every occurrence of x
Without(seq, x) == SelectSeq(seq, LAMBDA y : y # x)

\* C1: in every step of add/remove calls on one table, for every event
\* type e, onAddFirstListener(e) runs exactly once if e's list goes from
\* empty to non-empty and not at all otherwise, and onRemoveLastListener(e)
\* runs exactly once if e's list goes from non-empty to empty and not at
\* all otherwise.
C1_HooksOncePerTransition ==
  [][\A e \in TableTypes :
       LET before == ListOf(m_listeners[TableSrc], e)
           after == ListOf(m_listeners'[TableSrc], e)
       IN  /\ Count(hookLog', <<TableSrc, "onAddFirstListener", e>>)
                = (IF before = <<>> /\ after # <<>> THEN 1 ELSE 0)
           /\ Count(hookLog', <<TableSrc, "onRemoveLastListener", e>>)
                = (IF before # <<>> /\ after = <<>> THEN 1 ELSE 0)]_vars

\* a remove() emptied the lists of both event types and ran each hook once
C1_Witness ==
  /\ lastCall[1] = "remove"
  /\ Count(ListOf(m_listeners[TableSrc], Change), lastCall[2]) = 0
  /\ hookLog = << <<TableSrc, "onRemoveLastListener", Change>>,
                     <<TableSrc, "onRemoveLastListener", FilenameChange>> >>

\* C2: remove(handle) leaves every list of the table as it was without the
\* occurrences of handle (the other handles in their order), so that
\* hasListener(handle) is false right after it.
C2_RemoveEveryOccurrence ==
  [][lastCall'[1] = "remove" =>
       LET h == lastCall'[2]
           before == m_listeners[TableSrc]
           after == m_listeners'[TableSrc]
       IN  /\ ~hasListener(after, h)
           /\ Len(after) = Len(before)
           /\ \A i \in 1..Len(before) : after[i] = Without(before[i], h)
           /\ \A k \in Refs \ {h} :
                hasListener(after, k) = hasListener(before, k)]_vars

\* remove(h) has just emptied both lists (h was under both event types)
\* while another handle is still registered
C2_Witness ==
  /\ lastCall[1] = "remove"
  /\ Fired(hookLog, TableSrc, "onRemoveLastListener", Change)
  /\ \E k \in Refs \ {lastCall[2]} :
       Count(ListOf(m_listeners[TableSrc], FilenameChange), k) = 2

\* C3: a pass during which no callback calls on or off has invoked, at
\* every point of the loop, exactly the handles of the event's list up to
\* the iterator, in the list's order and once per occurrence; when it has
\* returned it has invoked the whole list, which is empty for an event
\* type the table has no list for.
C3_DispatchInOrder ==
  (pc # "idle" /\ passSrc \in Sources /\ mutations = 0) =>
    LET list == ListOf(m_listeners[passSrc], passType)
    IN  /\ it <= Len(list)
        /\ invoked = SubSeq(list, 1, it)
        /\ pc = "done" => invoked = list

\* a finished pass over a list that holds one handle twice and another
\* handle, with a callback that failed
C3_Witness ==
  /\ pc = "done"
  /\ mutations = 0
  /\ failed
  /\ Len(invoked) = 3
  /\ invoked[1] = invoked[3]
  /\ invoked[1] # invoked[2]

\* the list of event type e that source s had when the pass began
StartList(s, e) == ListOf(snapshot[s], e)

\* C4: a pass in which no callback calls on or off and some callbacks fail
\* still invokes every handle of the event's list, and every failure is
\* written to the console.
C4_FailureIsolated ==
  (pc = "done" /\ passSrc \in Sources /\ mutations = 0) =>
    /\ invoked = ListOf(m_listeners[passSrc], passType)
    /\ ~silent

\* C5: in a pass whose callbacks call on or off, the loop reads no
\* position outside the list it walks, and invokes no handle more often
\* than it was registered for the event; a handle a callback removed after
\* it was invoked is not invoked again.
C5_PassNotCorrupted ==
  (pc # "idle" /\ passSrc \in Sources) =>
    /\ ~oob
    /\ \A h \in 0..MaxRef :
         Count(invoked, h) <=
           Count(StartList(passSrc, passType), h)
             + Count(ListOf(m_listeners[passSrc], passType), h)

\* the names the scripting interface documents for each source
Recognized(s, eventName) ==
  IF s = App
    THEN eventName \in {"sitechange", "fgcolorchange", "bgcolorchange"}
    ELSE eventName \in {"change", "filenamechange"}

\* C6: on(eventName, callback) with a string that is not an event name of
\* the source, or with an event name and a second argument that is not a
\* function, raises an error, leaves every listener list, the registry
\* and every subscription as they were, and runs no hook.
C6_OnRejects ==
  [][(/\ lastCall'[1] = "on"
      /\ lastCall'[3] # NoName
      /\ \/ ~Recognized(lastCall'[2], lastCall'[3])
         \/ lastCall'[4] \notin Funcs) =>
       /\ ret'[1] = "error"
       /\ hookLog' = <<>>
       /\ UNCHANGED <<m_listeners, regVars, subVars>>]_vars

\* on("change", f) on the application source, which has no such event,
\* has just been rejected while listeners are registered
C6_Witness ==
  /\ lastCall = <<"on", App, "change", "f">>
  /\ ret = <<"error", "invalid event name to listen">>
  /\ m_listeners[App] # <<>>
  /\ \E k \in Refs : registry[k] \in Funcs

\* C7: off(k) on a source whose table does not hold k returns nothing and
\* leaves every listener list, the registry (the entry of k included) and
\* every subscription as they were, and runs no hook.
C7_OffForeignHandle ==
  [][(/\ lastCall'[1] = "off"
      /\ lastCall'[3][1] = "int"
      /\ ~hasListener(m_listeners[lastCall'[2]], lastCall'[3][2])) =>
       /\ ret' = <<"nothing">>
       /\ hookLog' = <<>>
       /\ UNCHANGED <<m_listeners, regVars, subVars>>]_vars

\* off(k) was called on the application source with a handle that the
\* table of document D1 holds
C7_Witness ==
  /\ lastCall[1] = "off"
  /\ lastCall[2] = App
  /\ lastCall[3][1] = "int"
  /\ lastCall[3][2] \in Refs
  /\ hasListener(m_listeners["D1"], lastCall[3][2])
  /\ registry[lastCall[3][2]] \in Funcs

\* C8: every handle in a list of a live source is a registry key that
\* holds a function.
C8_HandlesRegistered ==
  \A s \in Live : \A i \in 1..Len(m_listeners[s]) :
    \A j \in 1..Len(m_listeners[s][i]) :
      rawgeti(m_listeners[s][i][j]) \in Funcs

\* handle 1 was released and given out again: it now comes after handle 2
\* in a list
C8_Witness ==
  \E s \in Live : \E i \in 1..Len(m_listeners[s]) :
    m_listeners[s][i] = <<2, 1>>

\* the handles the pass owes one invocation each: those the event's list
\* held when the pass began and still holds
Owed(s, e) ==
  {h \in Refs : /\ Count(StartList(s, e), h) > 0
                /\ Count(ListOf(m_listeners[s], e), h) > 0}

\* the handles of functions that event e of source s has nothing to do
\* with during the pass
Foreign(s, e) ==
  {h \in Refs : /\ rawgeti(h) \in Funcs
                /\ Count(StartList(s, e), h) = 0
                /\ Count(ListOf(m_listeners[s], e), h) = 0}

\* C9: while the application source has a sitechange listener it observes
\* the context; a finished onActiveSiteChange has invoked every handle
\* registered for sitechange exactly once, and no handle that is not
\* registered for it (one that off released is not, until on gives it
\* out again).
C9_SiteChangeOnce ==
  /\ (App \in Live /\ ListOf(m_listeners[App], SiteChange) # <<>>) =>
       ctxObservers = 1
  /\ (pc = "done" /\ passNotif = "ActiveSiteChange" /\ passSrc = App) =>
       /\ \A h \in Owed(App, SiteChange) : Count(invoked, h) = 1
       /\ \A h \in Foreign(App, SiteChange) : Count(invoked, h) = 0

\* C10: a document source with a change listener observes the undo
\* history, and every document source observes its document; a finished
\* onAddUndoState or onCurrentUndoStateChange has invoked every change
\* handle exactly once and no other handle, and a finished
\* onFileNameChanged every filenamechange handle exactly once and no
\* other handle.
C10_ChangeOncePerUndoNotification ==
  /\ \A d \in Docs \cap Live :
       /\ docObservers[d] = 1
       /\ ListOf(m_listeners[d], Change) # <<>> => undoObservers[d] = 1
  /\ (pc = "done" /\ passSrc \in Docs) =>
       /\ passType = (IF passNotif = "FileNameChanged"
                        THEN FilenameChange ELSE Change)
       /\ \A h \in Owed(passSrc, passType) : Count(invoked, h) = 1
       /\ \A h \in Foreign(passSrc, passType) : Count(invoked, h) = 0

\* C11: a document that has reported its closure has no SpriteEvents in
\* g_spriteEvents, and neither its undo history nor the document has an
\* observer of this file left, so no later notification of it reaches a
\* callback.
C11_CloseDestroysSource ==
  \A d \in Docs :
    ~docOpen[d] =>
      /\ d \notin g_spriteEvents
      /\ undoObservers[d] = 0
      /\ docObservers[d] = 0
      /\ m_listeners[d] = <<>>

\* document D1 has just closed while a change listener was registered:
\* the destructor removed the undo observer and the document observer
C11_Witness ==
  /\ ~docOpen["D1"]
  /\ hookLog = << <<"D1", "undoHistory.remove_observer", Change>>,
                  <<"D1", "doc.remove_observer", Unknown>> >>
  /\ ~ub
  /\ \E k \in Refs \ otherRefs : registry[k] \in Funcs

\* C12: once App::Exit has fired, the context's observer list holds no
\* entry of a destroyed AppEvents, so a later active-site-change
\* notification calls no destroyed object.
C12_ExitLeavesNoObserver ==
  exited => (ctxDangling = 0 /\ ~ub)

\* C13: once App::Exit has fired g_spriteEvents is empty and no document
\* or undo history has an observer of this file, however many
\* SpriteEvents existed and whatever they listened to.
C13_ExitClearsRegistry ==
  exited =>
    /\ g_spriteEvents = {}
    /\ \A d \in Docs : undoObservers[d] = 0 /\ docObservers[d] = 0

\* App::Exit has just destroyed the SpriteEvents of both documents, one
\* of them observing its undo history and the other not
C13_Witness ==
  /\ exited
  /\ hookLog = << <<"D1", "doc.remove_observer", Unknown>>,
                  <<"D2", "undoHistory.remove_observer", Change>>,
                  <<"D2", "doc.remove_observer", Unknown>> >>
  /\ \E k \in Refs : registry[k] \in Funcs

\* C14: however often app.events is requested, before or after the
\* AppEvents was destroyed, at most one slot that resets g_appEvents is
\* connected to App::Exit, and a live AppEvents always has one.
C14_ExitConnectedOnce ==
  /\ exitSlots <= 1
  /\ g_appEvents => exitSlots = 1

\* C15: no operation on a SpriteEvents whose sprite no longer resolves
\* (first change listener added, last one removed, a notification, the
\* destructor) dereferences the null doc().
C15_StaleSourceSafe ==
  (\E d \in Docs : ~docOpen[d]) => ~ub

\* 1 when the list of event type e of source s has a listener, else 0
Listening(s, e) == IF ListOf(m_listeners[s], e) # <<>> THEN 1 ELSE 0

\* C16: while the AppEvents is live, it is an observer of the context
\* exactly when its sitechange list is non-empty, it has a slot on
\* fgColor.AfterChange exactly when its fgcolorchange list is non-empty,
\* and one on bgColor.AfterChange exactly when its bgcolorchange list is
\* non-empty; it never has two of one kind.
C16_AppSubscriptionsMatchLists ==
  g_appEvents =>
    /\ ctxObservers = Listening(App, SiteChange)
    /\ fgSlots = Listening(App, FgColorChange)
    /\ m_fgConn = (fgSlots = 1)
    /\ bgSlots = Listening(App, BgColorChange)
    /\ m_bgConn = (bgSlots = 1)

\* off() has just removed the last fgcolorchange listener while a
\* sitechange listener stays: the slot is gone, the observer is not
C16_Witness ==
  /\ g_appEvents
  /\ lastCall[1] = "off"
  /\ hookLog = << <<App, "onRemoveLastListener", FgColorChange>> >>
  /\ fgSlots = 0
  /\ ctxObservers = 1
  /\ ListOf(m_listeners[App], SiteChange) # <<>>

\* C17: for a live SpriteEvents of an open document, the change list is
\* non-empty exactly when m_observingUndo is true and exactly when the
\* undo history lists the SpriteEvents, which it does at most once; a
\* step that leaves the change list as it was (an on or off of a
\* filenamechange listener) leaves the undo subscription as it was.
C17_UndoSubscriptionMatchesChange ==
  /\ [](\A d \in g_spriteEvents :
          docOpen[d] =>
            /\ undoObservers[d] = Listening(d, Change)
            /\ m_observingUndo[d] = (undoObservers[d] = 1))
  /\ [][\A d \in Docs :
          (/\ lastCall'[1] \in {"on", "off"}
           /\ lastCall'[2] = d
           /\ ListOf(m_listeners'[d], Change) = ListOf(m_listeners[d], Change))
            => /\ undoObservers'[d] = undoObservers[d]
               /\ m_observingUndo'[d] = m_observingUndo[d]]_vars

\* the first filenamechange listener of D1 has just been added, no
\* change listener exists, and the undo history has no observer
C17_Witness ==
  /\ lastCall = <<"on", "D1", "filenamechange", "f">>
  /\ hookLog = << <<"D1", "onAddFirstListener", FilenameChange>> >>
  /\ undoObservers["D1"] = 0
  /\ ~m_observingUndo["D1"]
  /\ undoObservers["D2"] = 1

\* C18: a request for the events of document d that has no SpriteEvents
\* creates one with empty lists and makes it an observer of the document,
\* listeners or not; a request for a document that has one changes
\* neither the map nor any list nor any subscription; a live SpriteEvents
\* of an open document is in the document's observers exactly once.
C18_OneSourcePerDocument ==
  /\ [](\A d \in g_spriteEvents : docOpen[d] => docObservers[d] = 1)
  /\ [][\A d \in Docs :
          push_sprite_events(d) =>
            IF d \in g_spriteEvents
              THEN UNCHANGED <<g_spriteEvents, m_listeners, regVars, subVars>>
              ELSE /\ g_spriteEvents' = g_spriteEvents \cup {d}
                   /\ m_listeners'[d] = <<>>
                   /\ docObservers'[d] = 1
                   /\ undoObservers'[d] = 0]_vars

\* sprite.events has just been requested again while both documents have
\* a SpriteEvents with a listener
C18_Witness ==
  /\ g_spriteEvents = Docs
  /\ \A d \in Docs : docOpen[d] /\ m_listeners[d] # <<>>
                        /\ hasListener(m_listeners[d], IF d = "D1" THEN 1 ELSE 2)
  /\ pc = "idle"
  /\ lastCall = <<"none">>
  /\ ~exited

\* the handles of source s under which function fn is registered
HandlesOf(s, fn) ==
  {k \in Refs : /\ registry[k] = fn
                /\ \E e \in 0..2 : Count(ListOf(m_listeners[s], e), k) > 0}

\* C19: off(fn) on source s, when s holds handles of fn, takes exactly
\* one of them out of the lists of s and releases it: every other handle
\* keeps its registry entry and its places in every list of every source;
\* when s holds no handle of fn nothing changes.
C19_OffByFunction ==
  [][\A s \in Sources, fn \in Funcs :
       lastCall' = <<"off", s, <<"fn", fn>>>> =>
         /\ ret' = <<"nothing">>
         /\ IF HandlesOf(s, fn) = {}
              THEN /\ UNCHANGED <<m_listeners, regVars, subVars>>
                   /\ hookLog' = <<>>
              ELSE \E k \in HandlesOf(s, fn) :
                     /\ registry'[k] = "free"
                     /\ \A h \in Refs \ {k} : registry'[h] = registry[h]
                     /\ \A t \in Sources \ {s} :
                          m_listeners'[t] = m_listeners[t]
                     /\ Len(m_listeners'[s]) = Len(m_listeners[s])
                     /\ \A i \in 1..Len(m_listeners[s]) :
                          m_listeners'[s][i] = Without(m_listeners[s][i], k)]_vars

\* off(f) on the application source has just released the one handle it
\* held for f, while document D1 keeps its own handle of the same f
C19_Witness ==
  /\ lastCall = <<"off", App, <<"fn", "f">>>>
  /\ Fired(hookLog, App, "onRemoveLastListener", SiteChange)
  /\ \E k \in Refs : /\ registry[k] = "f"
                      /\ hasListener(m_listeners["D1"], k)
  /\ \E k \in Refs : registry[k] = "free"

\* the handles in the lists of source s
Held(s) == {k \in Refs : hasListener(m_listeners[s], k)}

\* C20: a step that destroys event sources (a document closing, App::Exit)
\* leaves the registry as it was, so every handle a destroyed source held
\* still has its function there, and runs no onRemoveLastListener.
C20_DestructionKeepsRegistry ==
  [][(Live \ Live' # {}) =>
       /\ UNCHANGED regVars
       /\ \A s \in Live \ Live' : \A k \in Held(s) : registry'[k] \in Funcs
       /\ \A i \in 1..Len(hookLog') :
            hookLog'[i][2] # "onRemoveLastListener"]_vars

\* App::Exit has just destroyed the AppEvents and the SpriteEvents of D1,
\* each of which held a handle; both handles still hold their function
C20_Witness ==
  /\ exited
  /\ hookLog = << <<App, "~AppEvents", Unknown>>,
                  <<"D1", "undoHistory.remove_observer", Change>>,
                  <<"D1", "doc.remove_observer", Unknown>> >>
  /\ otherRefs = {}
  /\ \A k \in Refs : registry[k] \in Funcs
  /\ \A s \in Sources : m_listeners[s] = <<>>

====
